---------------------------- MODULE Spec2Model ----------------------------
(***************************************************************************)
(* A model of taglib-simple's C++ extension: the stream adapter over a     *)
(* Ruby IO (IOStream.cpp), the Ruby <-> TagLib value conversions           *)
(* (convert_taglib_to_ruby.cpp, convert_ruby_to_taglib.cpp) and the        *)
(* FileRef wrapper (FileRef.cpp).                                          *)
(*                                                                         *)
(* Seven specifications share the variables:                               *)
(*   SpecIO    the stream adapter driving one wrapped resource             *)
(*   SpecConv  the Variant conversions over bounded values                 *)
(*   Spec      the life of one FileRef: construction, queries, merges,     *)
(*             save, close, destruction                                    *)
(*   SpecProps mergeProperties and properties on one valid handle          *)
(*   SpecTag   tag and mergeTagProperties on one valid handle              *)
(*   SpecComplex  mergeComplexProperties on one valid handle, TagLib 2     *)
(*   SpecDyn   one Ruby object converted to a Variant or a String          *)
(***************************************************************************)
EXTENDS Integers, Sequences, FiniteSets, TLC

VARIABLES
    io,       \* the caller's Ruby IO: [content, pos, closed]
    ioOp,     \* the last stream-adapter call: its arguments, pre-state and outcome
    conv,     \* the conversion under check: its input and results
    fileRef,  \* FileRef::fileRef, the TagLib handle
    stream,   \* FileRef::stream, the adapter the handle parses through
    lib,      \* what the TagLib handle holds: tag fields, properties
    refOp     \* the last FileRef call: its arguments, pre-state and outcome

vars == <<io, ioOp, conv, fileRef, stream, lib, refOp>>

---------------------------------------------------------------------------
(* Bounds *)

MaxContent == 3     \* longest resource content
MaxData == 2        \* longest data block handed to insert / writeBlock

---------------------------------------------------------------------------
(* Sequences *)

SeqsUpTo(S, n) == UNION {[1..k -> S] : k \in 0..n}

Take(s, n) == SubSeq(s, 1, IF n < Len(s) THEN n ELSE Len(s))

Drop(s, n) == SubSeq(s, n + 1, Len(s))

Zeros(n) == [i \in 1..n |-> 0]

Max2(a, b) == IF a > b THEN a ELSE b

Min2(a, b) == IF a < b THEN a ELSE b

---------------------------------------------------------------------------
(* The wrapped resource: a Ruby IO (File, StringIO) opened read-write.     *)
(* Each primitive is what the method the adapter calls does to it.         *)

ContentBytes == {1, 2}

\* io.seek(offset, whence) raises Errno::EINVAL on a negative target
seekTarget(r, offset, p) ==
    CASE p = "Beginning" -> offset
      [] p = "Current"   -> r.pos + offset
      [] p = "End"       -> Len(r.content) + offset
      [] OTHER           -> offset

ioSeek(r, offset, p) == [r EXCEPT !.pos = seekTarget(r, offset, p)]

\* io.read with no length: everything from the position on, "" at the end
ioReadAll(r) == Drop(r.content, r.pos)

ioAfterReadAll(r) == [r EXCEPT !.pos = Max2(r.pos, Len(r.content))]

\* io.write(str): overwrites from the position on, zero-fills a gap past the end
ioWrite(r, s) ==
    IF Len(s) = 0 THEN r
    ELSE LET base == IF r.pos > Len(r.content)
                     THEN r.content \o Zeros(r.pos - Len(r.content))
                     ELSE r.content
         IN [r EXCEPT !.content = Take(base, r.pos) \o s \o Drop(base, r.pos + Len(s)),
                      !.pos = r.pos + Len(s)]

\* io.truncate(length): cuts, or zero-extends; the position stays
ioTruncate(r, n) ==
    [r EXCEPT !.content = IF n <= Len(r.content) THEN Take(r.content, n)
                          ELSE r.content \o Zeros(n - Len(r.content))]


---------------------------------------------------------------------------
(* The stream adapter, IOStream. A run threads [io, raised, calls,         *)
(* remainder, ret] through the calls the method makes on the resource, in  *)
(* order. A call raises when the resource is closed, when the resource     *)
(* rejects it, or when it is the failAt-th call of the run (an error of    *)
(* the resource's own, failAt = 0: none); a Ruby exception unwinds the     *)
(* method, so no later call is made.                                       *)

Run0(r) == [io |-> r, raised |-> FALSE, calls |-> <<>>, remainder |-> <<>>, ret |-> <<>>]

Call(st, failAt, name, ok, nio) ==
    IF st.raised THEN st
    ELSE LET calls2 == Append(st.calls, name)
         IN IF Len(calls2) = failAt \/ st.io.closed \/ ~ok
            THEN [st EXCEPT !.raised = TRUE, !.calls = calls2]
            ELSE [st EXCEPT !.io = nio, !.calls = calls2]

\* IOStream::seek
seek(st, failAt, offset, p) ==
    Call(st, failAt, "seek", seekTarget(st.io, offset, p) >= 0, ioSeek(st.io, offset, p))

\* remainder = io.call("read")
readRemainder(st, failAt) ==
    LET st2 == Call(st, failAt, "read", TRUE, ioAfterReadAll(st.io))
    IN IF st2.raised THEN st2 ELSE [st2 EXCEPT !.remainder = ioReadAll(st.io)]

\* io.call("write", str), as writeBlock and the remainder's write-back make it
write(st, failAt, s) == Call(st, failAt, "write", TRUE, ioWrite(st.io, s))

\* IOStream::truncate
truncate(st, failAt, n) == Call(st, failAt, "truncate", n >= 0, ioTruncate(st.io, n))

\* IOStream::insert: the remainder is read only when replace > 0
insert(r, data, start, replace, failAt) ==
    LET s1 == seek(Run0(r), failAt, start, "Beginning")
        s3 == IF replace > 0
              THEN readRemainder(seek(s1, failAt, replace, "Current"), failAt)
              ELSE s1
        s4 == seek(s3, failAt, start, "Beginning")
        s5 == write(s4, failAt, data)
        s6 == write(s5, failAt, s5.remainder)
        new_length == start + Len(data) + Len(s6.remainder)
    IN truncate(s6, failAt, new_length)

removeBlock_keepsLength(r, start, length, failAt) ==
    LET s1 == seek(Run0(r), failAt, start + length, "Beginning")
        s2 == readRemainder(s1, failAt)
        s3 == seek(s2, failAt, start, "Beginning")
    IN write(s3, failAt, s3.remainder)

\* IOStream::removeBlock
removeBlock(r, start, length, failAt) ==
    LET s1 == seek(Run0(r), failAt, start + length, "Beginning")
        s2 == readRemainder(s1, failAt)
        s3 == seek(s2, failAt, start, "Beginning")
        s4 == write(s3, failAt, s3.remainder)
    IN truncate(s4, failAt, start + Len(s4.remainder))

\* IOStream::readBlock: io.read(length) answers nil at the end, an empty block here
readBlock(r, length, failAt) ==
    LET got == Take(Drop(r.content, r.pos), length)
        st == Call(Run0(r), failAt, "read", TRUE, [r EXCEPT !.pos = r.pos + Len(got)])
    IN IF st.raised THEN st ELSE [st EXCEPT !.ret = got]

\* IOStream::writeBlock
writeBlock(r, data, failAt) == write(Run0(r), failAt, data)

\* IOStream::tell
tell(st, failAt) ==
    LET st2 == Call(st, failAt, "tell", TRUE, st.io)
    IN IF st2.raised THEN st2 ELSE [st2 EXCEPT !.ret = st.io.pos]

length_staysAtEnd(r, failAt) ==
    LET s1 == tell(Run0(r), failAt)
        s2 == seek(s1, failAt, 0, "End")
        s3 == tell(s2, failAt)
    IN s3

\* IOStream::length
length(r, failAt) ==
    LET s1 == tell(Run0(r), failAt)
        current == s1.ret
        s2 == seek(s1, failAt, 0, "End")
        s3 == tell(s2, failAt)
        file_length == s3.ret
        s4 == seek(s3, failAt, current, "Beginning")
    IN IF s4.raised THEN s4 ELSE [s4 EXCEPT !.ret = file_length]

---------------------------------------------------------------------------
(* SpecIO: the adapter's operations on one resource. ioOp holds the call   *)
(* in hand until it returns.                                               *)

Contents == SeqsUpTo(ContentBytes, MaxContent)

Blocks == SeqsUpTo(ContentBytes, MaxData)

Offsets == 0..MaxContent

MaxCalls == 7       \* insert makes at most seven calls on the resource

FailPoints == 0..MaxCalls

Positions == {"Beginning", "Current", "End"}

NoIoOp == [name |-> "none", R |-> <<>>, p |-> 0, data |-> <<>>, start |-> 0, n |-> 0,
           raised |-> FALSE, calls |-> <<>>, ret |-> <<>>]

IoDone(name, data, start, n, st) ==
    /\ Len(st.io.content) <= MaxContent
    /\ st.io.pos <= MaxContent + MaxData
    /\ io' = st.io
    /\ ioOp' = [name |-> name, R |-> io.content, p |-> io.pos, data |-> data,
                start |-> start, n |-> n, raised |-> st.raised, calls |-> st.calls,
                ret |-> st.ret]
    /\ UNCHANGED <<conv, fileRef, stream, lib, refOp>>

Insert ==
    /\ ioOp.name = "none"
    /\ \E data \in Blocks, start \in Offsets, replace \in Offsets, failAt \in FailPoints :
           IoDone("insert", data, start, replace, insert(io, data, start, replace, failAt))

RemoveBlock ==
    /\ ioOp.name = "none"
    /\ \E start \in Offsets, len \in Offsets, failAt \in FailPoints :
           IoDone("removeBlock", <<>>, start, len, removeBlock(io, start, len, failAt))

ReadBlock ==
    /\ ioOp.name = "none"
    /\ \E len \in Offsets, failAt \in 0..1 :
           IoDone("readBlock", <<>>, 0, len, readBlock(io, len, failAt))

WriteBlock ==
    /\ ioOp.name = "none"
    /\ \E data \in Blocks, failAt \in 0..1 :
           IoDone("writeBlock", data, 0, 0, writeBlock(io, data, failAt))

Seek ==
    /\ ioOp.name = "none"
    /\ \E offset \in Offsets, p \in Positions :
           IoDone("seek", <<>>, offset, 0, seek(Run0(io), 0, offset, p))

Length ==
    /\ ioOp.name = "none"
    /\ \E failAt \in 0..4 :
           IoDone("length", <<>>, 0, 0, length(io, failAt))

Truncate ==
    /\ ioOp.name = "none"
    /\ \E n \in Offsets :
           IoDone("truncate", <<>>, 0, n, truncate(Run0(io), 0, n))

\* the call has returned (or raised) to TagLib, which makes its next call
IoReturn ==
    /\ ioOp.name # "none"
    /\ ioOp' = NoIoOp
    /\ UNCHANGED <<io, conv, fileRef, stream, lib, refOp>>

NextIO ==
    \/ Insert \/ RemoveBlock \/ ReadBlock \/ WriteBlock \/ Seek \/ Length \/ Truncate
    \/ IoReturn

IdleConv == [phase |-> "idle"]

IdleRefOp == [name |-> "none"]

\* FileRef::stream when it holds no adapter
NullStream == [alive |-> FALSE, openReadOnly |-> FALSE]

\* a TagLib::Tag with every field at its zero value
ZeroTag ==
    [title |-> <<>>, artist |-> <<>>, album |-> <<>>, genre |-> <<>>,
     year |-> 0, track |-> 0, comment |-> <<>>]

\* what a handle that holds no file holds; major is TAGLIB_MAJOR_VERSION of the build
NoFile(major) ==
    [major |-> major, tag |-> ZeroTag, props |-> <<>>, complex |-> <<>>,
     readOnly |-> FALSE, audio |-> FALSE, saved |-> FALSE]

IdleLib == NoFile(2)

InitIO ==
    /\ io \in [content : Contents, pos : Offsets, closed : BOOLEAN]
    /\ ioOp = NoIoOp
    /\ conv = IdleConv
    /\ fileRef = "unbuilt"
    /\ stream = NullStream
    /\ lib = IdleLib
    /\ refOp = IdleRefOp

SpecIO == InitIO /\ [][NextIO]_vars

---------------------------------------------------------------------------
(* Strings. A TagLib::String is a sequence of code points, a ByteVector a  *)
(* sequence of bytes, a Ruby String bytes under an encoding tag.           *)

\* Rice::String::c_str() handed to a constructor that takes a C string: the bytes
\* before the first NUL
RECURSIVE c_str(_)
c_str(bytes) ==
    IF Len(bytes) = 0 \/ bytes[1] = 0 THEN <<>>
    ELSE <<bytes[1]>> \o c_str(Tail(bytes))

\* TagLib::String::to8Bit(true): UTF-8, one byte below U+0080, two below U+0800
RECURSIVE to8BitUTF8(_)
to8BitUTF8(str) ==
    IF Len(str) = 0 THEN <<>>
    ELSE (IF str[1] < 128 THEN <<str[1]>>
          ELSE <<192 + (str[1] \div 64), 128 + (str[1] % 64)>>)
         \o to8BitUTF8(Tail(str))

\* TagLib::String::to8Bit(false): Latin-1, each code point cut to its low byte
to8BitLatin1(str) == [i \in 1..Len(str) |-> str[i] % 256]

\* whether bytes are well-formed UTF-8 (of one- and two-byte sequences)
RECURSIVE validUTF8(_)
validUTF8(bytes) ==
    IF Len(bytes) = 0 THEN TRUE
    ELSE IF bytes[1] < 128 THEN validUTF8(Tail(bytes))
    ELSE /\ bytes[1] >= 194 /\ bytes[1] < 224
         /\ Len(bytes) >= 2 /\ bytes[2] >= 128 /\ bytes[2] < 192
         /\ validUTF8(Tail(Tail(bytes)))

RECURSIVE decodeUTF8(_)
decodeUTF8(bytes) ==
    IF Len(bytes) = 0 THEN <<>>
    ELSE IF bytes[1] < 128 THEN <<bytes[1]>> \o decodeUTF8(Tail(bytes))
    ELSE <<(bytes[1] - 192) * 64 + (bytes[2] - 128)>> \o decodeUTF8(Tail(Tail(bytes)))

\* TagLib::String(const char *, UTF8): the C string decoded; ill-formed input leaves
\* the string empty
StringFromUTF8(bytes) ==
    IF validUTF8(c_str(bytes)) THEN decodeUTF8(c_str(bytes)) ELSE <<>>

\* TagLib::String(const char *), Latin-1 by default: one code point per byte
StringFromLatin1(bytes) == c_str(bytes)

\* std::map's key order on TagLib::String
RECURSIVE StringLess(_, _)
StringLess(a, b) ==
    IF Len(b) = 0 THEN FALSE
    ELSE IF Len(a) = 0 THEN TRUE
    ELSE IF a[1] # b[1] THEN a[1] < b[1]
    ELSE StringLess(Tail(a), Tail(b))

\* the keys of a TagLib::Map in iteration order
RECURSIVE SortedKeys(_)
SortedKeys(K) ==
    IF K = {} THEN <<>>
    ELSE LET k == CHOOSE x \in K : \A y \in K \ {x} : StringLess(x, y)
         IN <<k>> \o SortedKeys(K \ {k})

---------------------------------------------------------------------------
(* Ruby objects *)

RNil == [k |-> "nil"]

RBool(b) == [k |-> "bool", v |-> b]

RInt(n) == [k |-> "integer", v |-> n]

RStr(enc, bytes) == [k |-> "string", enc |-> enc, bytes |-> bytes]

RArr(items) == [k |-> "array", v |-> items]

\* a Hash is its entries, <<key, value>>, in insertion order
RHash(entries) == [k |-> "hash", v |-> entries]

\* result[key] = value
RECURSIVE HashStore(_, _, _)
HashStore(entries, key, value) ==
    IF Len(entries) = 0 THEN <<<<key, value>>>>
    ELSE IF entries[1][1] = key THEN <<<<key, value>>>> \o Tail(entries)
    ELSE <<entries[1]>> \o HashStore(Tail(entries), key, value)

---------------------------------------------------------------------------
(* TagLib::Variant. A VariantMap is a function from its keys; Raise stands *)
(* for a conversion that raised a Ruby exception instead of returning.     *)

Variant(t, v) == [t |-> t, val |-> v]

Void == Variant("Void", 0)

Raise(e) == Variant("Raise", e)

IsRaise(x) == x.t = "Raise"

\* the first exception among converted items, if any
FirstRaise(items) ==
    IF \E i \in 1..Len(items) : IsRaise(items[i])
    THEN {items[CHOOSE i \in 1..Len(items) :
                    IsRaise(items[i]) /\ \A j \in 1..(i - 1) : ~IsRaise(items[j])]}
    ELSE {}

---------------------------------------------------------------------------
(* TagLib -> Ruby, convert_taglib_to_ruby.cpp *)

tagLibStringToRubyUTF8String(str) == RStr("UTF-8", to8BitUTF8(str))

tagLibStringListToRuby(list) ==
    RArr([i \in 1..Len(list) |-> tagLibStringToRubyUTF8String(list[i])])

tagLibByteVectorToRuby(byteVector) == RStr("ASCII-8BIT", byteVector)

tagLibByteVectorListToRuby(list) ==
    RArr([i \in 1..Len(list) |-> tagLibByteVectorToRuby(list[i])])

\* Rice::String key(pair.first.toCString()): the Latin-1 C string of the key
variantMapKeyToRuby(key) == RStr("UTF-8", c_str(to8BitLatin1(key)))

RECURSIVE taglibVariantToRuby(_)
RECURSIVE variantMapEntriesToRuby(_, _, _)

\* the loop of taglibVariantMapToRuby over the map's keys, in order
variantMapEntriesToRuby(map, keys, result) ==
    IF Len(keys) = 0 THEN result
    ELSE variantMapEntriesToRuby(map, Tail(keys),
             HashStore(result, variantMapKeyToRuby(keys[1]),
                       taglibVariantToRuby(map[keys[1]])))

taglibVariantMapToRuby(map) ==
    RHash(variantMapEntriesToRuby(map, SortedKeys(DOMAIN map), <<>>))

taglibVariantListToRuby(list) ==
    RArr([i \in 1..Len(list) |-> taglibVariantToRuby(list[i])])

taglibVariantToRuby(value) ==
    CASE value.t = "Bool" -> RBool(value.val)
      [] value.t \in {"Int", "UInt", "LongLong", "ULongLong"} -> RInt(value.val)
      [] value.t = "String" -> tagLibStringToRubyUTF8String(value.val)
      [] value.t = "StringList" -> tagLibStringListToRuby(value.val)
      [] value.t = "ByteVector" -> tagLibByteVectorToRuby(value.val)
      [] value.t = "ByteVectorList" -> tagLibByteVectorListToRuby(value.val)
      [] value.t = "VariantList" -> taglibVariantListToRuby(value.val)
      [] value.t = "VariantMap" -> taglibVariantMapToRuby(value.val)
      [] OTHER -> RNil

---------------------------------------------------------------------------
(* Ruby -> TagLib, convert_ruby_to_taglib.cpp *)

IntBits == 2        \* model width of int / unsigned int
LLBits == 3         \* model width of long long / unsigned long long

LLMin == -(2 ^ (LLBits - 1))

LLMax == 2 ^ (LLBits - 1) - 1

\* NUM2LL raises RangeError outside long long
NUM2LL(n) == IF n >= LLMin /\ n <= LLMax THEN Variant("LongLong", n) ELSE Raise("RangeError")

isBinaryEncoding(str) == str.enc = "ASCII-8BIT"

\* Rice::String str = { item.value() } raises TypeError unless the item is a String
IsRubyString(obj) == obj.k = "string"

\* collects converted items into a list Variant, or the first exception
ListOrRaise(t, items) ==
    IF FirstRaise(items) # {} THEN CHOOSE e \in FirstRaise(items) : TRUE
    ELSE Variant(t, [i \in 1..Len(items) |-> items[i].val])

rubyArrayToTagLibStringList(arr) ==
    ListOrRaise("StringList",
        [i \in 1..Len(arr) |->
            IF IsRubyString(arr[i]) THEN Variant("String", StringFromUTF8(arr[i].bytes))
            ELSE Raise("TypeError")])

rubyArrayToTagLibByteVectorList(arr) ==
    ListOrRaise("ByteVectorList",
        [i \in 1..Len(arr) |->
            IF IsRubyString(arr[i]) THEN Variant("ByteVector", arr[i].bytes)
            ELSE Raise("TypeError")])

rubyStringToTaglibVariant_keepsBytes(str) ==
    IF isBinaryEncoding(str) THEN Variant("ByteVector", str.bytes)
    ELSE Variant("String", str.bytes)

rubyStringToTaglibVariant(str) ==
    IF isBinaryEncoding(str) THEN Variant("ByteVector", str.bytes)
    ELSE Variant("String", StringFromUTF8(str.bytes))

RECURSIVE rubyObjectToTagLibVariant(_)
RECURSIVE hashEntriesToVariantMap(_, _)

rubyArrayToTagLibVariant_everyElementDecides(arr) ==
    IF Len(arr) = 0 THEN Void
    ELSE IF IsRubyString(arr[1])
    THEN IF \A i \in 1..Len(arr) : IsRubyString(arr[i]) /\ isBinaryEncoding(arr[i])
         THEN rubyArrayToTagLibByteVectorList(arr)
         ELSE rubyArrayToTagLibStringList(arr)
    ELSE LET items == [i \in 1..Len(arr) |-> rubyObjectToTagLibVariant(arr[i])]
         IN IF FirstRaise(items) # {} THEN CHOOSE e \in FirstRaise(items) : TRUE
            ELSE Variant("VariantList", items)

rubyArrayToTagLibVariant(arr) ==
    IF Len(arr) = 0 THEN Void
    ELSE IF IsRubyString(arr[1])
    THEN IF isBinaryEncoding(arr[1]) THEN rubyArrayToTagLibByteVectorList(arr)
         ELSE rubyArrayToTagLibStringList(arr)
    ELSE LET items == [i \in 1..Len(arr) |-> rubyObjectToTagLibVariant(arr[i])]
         IN IF FirstRaise(items) # {} THEN CHOOSE e \in FirstRaise(items) : TRUE
            ELSE Variant("VariantList", items)

\* the loop of rubyHashToTagLibVariantMap: result.insert(key, value) replaces
hashEntriesToVariantMap(entries, result) ==
    IF Len(entries) = 0 THEN Variant("VariantMap", result)
    ELSE IF ~IsRubyString(entries[1][1]) THEN Raise("TypeError")
    ELSE LET key == StringFromLatin1(entries[1][1].bytes)
             value == rubyObjectToTagLibVariant(entries[1][2])
         IN IF IsRaise(value) THEN value
            ELSE hashEntriesToVariantMap(Tail(entries),
                     [x \in DOMAIN result \cup {key} |->
                         IF x = key THEN value ELSE result[x]])

rubyHashToTagLibVariantMap(hash) == hashEntriesToVariantMap(hash.v, <<>>)

rubyObjectToTagLibVariant(obj) ==
    CASE obj.k = "nil" -> Void
      [] obj.k = "integer" -> NUM2LL(obj.v)
      [] obj.k = "string" -> rubyStringToTaglibVariant(obj)
      [] obj.k = "array" -> rubyArrayToTagLibVariant(obj.v)
      [] obj.k = "hash" -> rubyHashToTagLibVariantMap(obj)
      [] obj.k = "bool" -> Variant("Bool", obj.v)
      [] OTHER -> Void

---------------------------------------------------------------------------
(* Scalars of the tag record and property lists, both directions *)

\* the code units of a UTF-16 Ruby String, low byte first (LE) or last (BE)
RECURSIVE decodeUTF16(_, _)
decodeUTF16(bytes, le) ==
    IF Len(bytes) < 2 THEN <<>>
    ELSE <<IF le THEN bytes[1] + 256 * bytes[2] ELSE 256 * bytes[1] + bytes[2]>>
         \o decodeUTF16(Tail(Tail(bytes)), le)

\* rb_str_export_to_enc(str, UTF-8): Ruby transcodes from str's own encoding; of
\* the encodings that reach it here, UTF-16 reads its byte order mark
rb_str_export_to_utf8(str) ==
    IF str.enc = "UTF-16"
    THEN IF Len(str.bytes) >= 2 /\ str.bytes[1] = 255 /\ str.bytes[2] = 254
         THEN to8BitUTF8(decodeUTF16(Tail(Tail(str.bytes)), TRUE))
         ELSE IF Len(str.bytes) >= 2 /\ str.bytes[1] = 254 /\ str.bytes[2] = 255
         THEN to8BitUTF8(decodeUTF16(Tail(Tail(str.bytes)), FALSE))
         ELSE to8BitUTF8(decodeUTF16(str.bytes, FALSE))
    ELSE str.bytes

\* TagLib::String(const char *, UTF16LE / UTF16BE): TagLib takes no UTF-16 from a
\* C string and leaves the String empty
StringFromUTF16CStr(bytes) == <<>>

rubyStringToTagLibString(str) ==
    CASE str.enc = "UTF-8" -> StringFromUTF8(str.bytes)
      [] str.enc \in {"ASCII-8BIT", "US-ASCII"} -> StringFromUTF8(str.bytes)
      [] str.enc = "ISO-8859-1" -> StringFromLatin1(str.bytes)
      [] str.enc = "UTF-16LE" -> StringFromUTF16CStr(str.bytes)
      [] str.enc = "UTF-16BE" -> StringFromUTF16CStr(str.bytes)
      [] OTHER -> StringFromUTF8(rb_str_export_to_utf8(str))

rubyStringOrNilToTagLibString(value) ==
    IF value.k = "nil" THEN Variant("String", <<>>)
    ELSE IF ~IsRubyString(value) THEN Raise("TypeError")
    ELSE Variant("String", rubyStringToTagLibString(value))

\* NUM2UINT: a negative int wraps, anything wider raises RangeError
rubyIntegerOrNilToUInt(value) ==
    IF value.k = "nil" THEN Variant("UInt", 0)
    ELSE IF value.k # "integer" THEN Raise("TypeError")
    ELSE IF value.v > 2 ^ IntBits - 1 \/ value.v < -(2 ^ (IntBits - 1)) THEN Raise("RangeError")
    ELSE Variant("UInt", value.v % (2 ^ IntBits))

tagLibStringToNonEmptyRubyUTF8String_neverNil(string) ==
    tagLibStringToRubyUTF8String(string)

tagLibStringToNonEmptyRubyUTF8String(string) ==
    IF Len(string) = 0 THEN RNil ELSE tagLibStringToRubyUTF8String(string)

uintToNonZeroRubyInteger(integer) ==
    IF integer = 0 THEN RNil ELSE RInt(integer)

\* rubyObjectToTagLibStringList: an Array item by item, anything else as one String;
\* TagLib::String(const char *) reads the bytes as Latin-1
rubyObjectToTagLibStringList(obj) ==
    IF obj.k = "array"
    THEN ListOrRaise("StringList",
            [i \in 1..Len(obj.v) |->
                IF IsRubyString(obj.v[i])
                THEN Variant("String", StringFromLatin1(obj.v[i].bytes))
                ELSE Raise("TypeError")])
    ELSE IF IsRubyString(obj) THEN Variant("StringList", <<StringFromLatin1(obj.bytes)>>)
    ELSE Raise("TypeError")

\* tagLibPropertyMapToRubyHash: each key and value as UTF-8 Strings, in key order
tagLibPropertyMapToRubyHash(properties) ==
    LET keys == SortedKeys(DOMAIN properties)
    IN RHash([i \in 1..Len(keys) |->
                <<tagLibStringToRubyUTF8String(keys[i]),
                  tagLibStringListToRuby(properties[keys[i]])>>])

---------------------------------------------------------------------------
(* What the TagLib handle holds, as far as the wrapper reads and writes it: *)
(* the seven tag fields, the PropertyMap, the complex properties, whether   *)
(* the file is read-only, whether audio properties were read, and whether   *)
(* the file on disk holds the same (saved). major is TAGLIB_MAJOR_VERSION   *)
(* of the build.                                                            *)

TextFields == {"title", "artist", "album", "genre", "comment"}

UIntFields == {"year", "track"}

\* the members of AudioTag, in the order tag() passes them
TagMembers == <<"title", "artist", "album", "genre", "year", "track", "comment">>

RSym(name) == [k |-> "symbol", v |-> name]

\* TagLib::String::upper(): ASCII letters only
upper(str) == [i \in 1..Len(str) |-> IF str[i] >= 97 /\ str[i] <= 122 THEN str[i] - 32 ELSE str[i]]

\* TagLib::PropertyMap::replace: the key upper-cased, its old values dropped
PropertyMap_replace(properties, key, values) ==
    [x \in DOMAIN properties \cup {upper(key)} |->
        IF x = upper(key) THEN values ELSE properties[x]]

PropertyMap_removeEmpty_keepsAll(properties) == properties

\* TagLib::PropertyMap::removeEmpty
PropertyMap_removeEmpty(properties) ==
    [x \in {y \in DOMAIN properties : Len(properties[y]) > 0} |-> properties[x]]

\* what a FileRef call gives back: the handle's content after it, the exception
\* it raised ("none": it returned), its return value, and whether it dereferenced
\* the handle
Out(l, raised, ret, touched) == [lib |-> l, raised |-> raised, ret |-> ret, touched |-> touched]

\* FileRef::isValid: !fileRef->isNull()
isValid(h) == h = "valid"

raiseInvalid_never(h) == FALSE

\* FileRef::raiseInvalid: whether it throws TagLib::Error
raiseInvalid(h) == ~isValid(h)

\* every accessor: raiseInvalid() first, then the body on the handle; a body that
\* ran on a handle without a file would dereference a null pointer
Checked(h, l, body) ==
    IF raiseInvalid(h) THEN Out(l, "TagLib::Error", RNil, FALSE)
    ELSE IF ~isValid(h) THEN Out(l, "null dereference", RNil, TRUE)
    ELSE body

---------------------------------------------------------------------------
(* FileRef's methods, FileRef.cpp: h is the handle, l what it holds *)

FileRef_isReadOnly(h, l) == Checked(h, l, Out(l, "none", RBool(l.readOnly), TRUE))

FileRef_audioProperties(h, l) ==
    Checked(h, l, Out(l, "none", IF l.audio THEN [k |-> "AudioProperties"] ELSE RNil, TRUE))

\* the AudioTag that tag() builds: its members and their values, in order
AudioTag(tag) ==
    [k |-> "AudioTag",
     v |-> [i \in 1..Len(TagMembers) |->
              <<RSym(TagMembers[i]),
                IF TagMembers[i] \in TextFields
                THEN tagLibStringToNonEmptyRubyUTF8String(tag[TagMembers[i]])
                ELSE uintToNonZeroRubyInteger(tag[TagMembers[i]])>>]]

FileRef_tag(h, l) == Checked(h, l, Out(l, "none", AudioTag(l.tag), TRUE))

RECURSIVE mergeTagEntries_skipsUnknown(_, _)
mergeTagEntries_skipsUnknown(entries, tag) ==
    IF Len(entries) = 0 THEN [tag |-> tag, raised |-> "none"]
    ELSE LET key == entries[1][1].v
             value == entries[1][2]
             conv1 == IF key \in TextFields THEN rubyStringOrNilToTagLibString(value)
                      ELSE rubyIntegerOrNilToUInt(value)
         IN IF key \notin TextFields \cup UIntFields
            THEN mergeTagEntries_skipsUnknown(Tail(entries), tag)
            ELSE IF IsRaise(conv1) THEN [tag |-> tag, raised |-> conv1.val]
            ELSE mergeTagEntries_skipsUnknown(Tail(entries), [tag EXCEPT ![key] = conv1.val])

\* the loop of mergeTagProperties over in_obj.to_h: each field is set as its entry
\* is reached; an exception ends the loop with the earlier fields set
RECURSIVE mergeTagEntries(_, _)
mergeTagEntries(entries, tag) ==
    IF Len(entries) = 0 THEN [tag |-> tag, raised |-> "none"]
    ELSE LET key == entries[1][1].v
             value == entries[1][2]
             conv1 == IF key \in TextFields THEN rubyStringOrNilToTagLibString(value)
                      ELSE rubyIntegerOrNilToUInt(value)
         IN IF entries[1][1].k # "symbol" THEN [tag |-> tag, raised |-> "TypeError"]
            ELSE IF key \notin TextFields \cup UIntFields
            THEN [tag |-> tag, raised |-> "KeyError"]
            ELSE IF IsRaise(conv1) THEN [tag |-> tag, raised |-> conv1.val]
            ELSE mergeTagEntries(Tail(entries), [tag EXCEPT ![key] = conv1.val])

\* in_obj.call("to_h"): a Hash and an AudioTag give their entries
FileRef_mergeTagProperties(h, l, in_obj) ==
    Checked(h, l,
        IF in_obj.k \notin {"hash", "AudioTag"} THEN Out(l, "NoMethodError", RNil, FALSE)
        ELSE LET r == mergeTagEntries(in_obj.v, l.tag)
             IN Out([l EXCEPT !.tag = r.tag, !.saved = l.saved /\ r.tag = l.tag],
                    r.raised, RNil, TRUE))

FileRef_properties(h, l) ==
    Checked(h, l, Out(l, "none", tagLibPropertyMapToRubyHash(l.props), TRUE))

\* the loop of mergeProperties over the Hash
RECURSIVE mergePropertyEntries(_, _)
mergePropertyEntries(entries, properties) ==
    IF Len(entries) = 0 THEN [properties |-> properties, raised |-> "none"]
    ELSE LET values == rubyObjectToTagLibStringList(entries[1][2])
         IN IF ~IsRubyString(entries[1][1])
            THEN [properties |-> properties, raised |-> "TypeError"]
            ELSE IF IsRaise(values) THEN [properties |-> properties, raised |-> values.val]
            ELSE mergePropertyEntries(Tail(entries),
                    PropertyMap_replace(properties,
                        rubyStringToTagLibString(entries[1][1]), values.val))

mergedProperties_startsFromCurrent(l, in, replace_all) ==
    mergePropertyEntries(in.v, l.props)

mergedProperties_appends(l, in, replace_all) ==
    LET r == mergePropertyEntries(in.v, IF replace_all THEN <<>> ELSE l.props)
    IN [r EXCEPT !.properties =
           [x \in DOMAIN r.properties |->
               IF ~replace_all /\ x \in DOMAIN l.props /\ r.properties[x] # l.props[x]
               THEN l.props[x] \o r.properties[x] ELSE r.properties[x]]]

\* the PropertyMap mergeProperties builds before removeEmpty
mergedProperties(l, in, replace_all) ==
    mergePropertyEntries(in.v, IF replace_all THEN <<>> ELSE l.props)

\* file()->setProperties(properties) stores the map handed to it
FileRef_mergeProperties(h, l, in, replace_all) ==
    Checked(h, l,
        LET r == mergedProperties(l, in, replace_all)
            properties == PropertyMap_removeEmpty(r.properties)
        IN IF r.raised # "none" THEN Out(l, r.raised, RNil, TRUE)
           ELSE Out([l EXCEPT !.props = properties,
                              !.saved = l.saved /\ properties = l.props],
                    "none", RNil, TRUE))


\* tagLibComplexPropertyToRuby
tagLibComplexPropertyToRuby(list) ==
    RArr([i \in 1..Len(list) |-> taglibVariantMapToRuby(list[i])])

\* rubyObjectToTagLibComplexProperty: nil and false give the empty list; Array(obj)
\* and Hash(item) raise TypeError on anything else
rubyObjectToTagLibComplexProperty(obj) ==
    IF obj.k = "nil" \/ (obj.k = "bool" /\ ~obj.v) THEN Variant("ComplexProperty", <<>>)
    ELSE IF obj.k # "array" THEN Raise("TypeError")
    ELSE LET items == [i \in 1..Len(obj.v) |->
                          IF obj.v[i].k = "hash" THEN rubyHashToTagLibVariantMap(obj.v[i])
                          ELSE Raise("TypeError")]
         IN IF FirstRaise(items) # {} THEN CHOOSE e \in FirstRaise(items) : TRUE
            ELSE Variant("ComplexProperty", [i \in 1..Len(items) |-> items[i].val])

\* file()->complexProperties(key): the empty list for a key the file does not hold
File_complexProperties(complex, key) ==
    IF key \in DOMAIN complex THEN complex[key] ELSE <<>>

\* file()->setComplexProperties(key, list): the key's list as a whole; a key set to
\* the empty list is no longer among complexPropertyKeys()
File_setComplexProperties(complex, key, list) ==
    IF Len(list) = 0 THEN [x \in DOMAIN complex \ {key} |-> complex[x]]
    ELSE [x \in DOMAIN complex \cup {key} |-> IF x = key THEN list ELSE complex[x]]

FileRef_complexPropertyKeys(h, l) ==
    Checked(h, l,
        IF l.major < 2 THEN Out(l, "none", RArr(<<>>), FALSE)
        ELSE Out(l, "none", tagLibStringListToRuby(SortedKeys(DOMAIN l.complex)), TRUE))

FileRef_complexProperty_emptyWhenUnsupported(h, l, key) ==
    Checked(h, l,
        IF l.major < 2 THEN Out(l, "none", RArr(<<>>), FALSE)
        ELSE Out(l, "none",
                 tagLibComplexPropertyToRuby(
                     File_complexProperties(l.complex, rubyStringToTagLibString(key))),
                 TRUE))

FileRef_complexProperty(h, l, key) ==
    Checked(h, l,
        IF l.major < 2 THEN Out(l, "NotImplementedError", RNil, FALSE)
        ELSE Out(l, "none",
                 tagLibComplexPropertyToRuby(
                     File_complexProperties(l.complex, rubyStringToTagLibString(key))),
                 TRUE))

\* the first loop of mergeComplexProperties: every key the file holds is emptied
RECURSIVE clearComplexProperties(_, _)
clearComplexProperties(complex, keys) ==
    IF Len(keys) = 0 THEN complex
    ELSE clearComplexProperties(File_setComplexProperties(complex, keys[1], <<>>), Tail(keys))

RECURSIVE mergeComplexEntries_appends(_, _)
mergeComplexEntries_appends(entries, complex) ==
    IF Len(entries) = 0 THEN [complex |-> complex, raised |-> "none"]
    ELSE LET list == rubyObjectToTagLibComplexProperty(entries[1][2])
             key == rubyStringToTagLibString(entries[1][1])
         IN IF ~IsRubyString(entries[1][1]) THEN [complex |-> complex, raised |-> "TypeError"]
            ELSE IF IsRaise(list) THEN [complex |-> complex, raised |-> list.val]
            ELSE mergeComplexEntries_appends(Tail(entries),
                    File_setComplexProperties(complex, key,
                        File_complexProperties(complex, key) \o list.val))

\* the second loop: each entry is set on the file as it is reached
RECURSIVE mergeComplexEntries(_, _)
mergeComplexEntries(entries, complex) ==
    IF Len(entries) = 0 THEN [complex |-> complex, raised |-> "none"]
    ELSE LET list == rubyObjectToTagLibComplexProperty(entries[1][2])
         IN IF ~IsRubyString(entries[1][1]) THEN [complex |-> complex, raised |-> "TypeError"]
            ELSE IF IsRaise(list) THEN [complex |-> complex, raised |-> list.val]
            ELSE mergeComplexEntries(Tail(entries),
                    File_setComplexProperties(complex,
                        rubyStringToTagLibString(entries[1][1]), list.val))

FileRef_mergeComplexProperties(h, l, in, replace_all) ==
    Checked(h, l,
        IF l.major < 2
        THEN IF Len(in.v) > 0 THEN Out(l, "NotImplementedError", RNil, FALSE)
             ELSE Out(l, "none", RNil, FALSE)
        ELSE LET cleared == IF replace_all
                            THEN clearComplexProperties(l.complex, SortedKeys(DOMAIN l.complex))
                            ELSE l.complex
                 r == mergeComplexEntries(in.v, cleared)
             IN Out([l EXCEPT !.complex = r.complex,
                              !.saved = l.saved /\ r.complex = l.complex],
                    r.raised, RNil, TRUE))

---------------------------------------------------------------------------
(* The life of a FileRef: construction, close, destruction *)

\* what std::move(ruby_io) leaves in the parameter: Rice::Object's move
\* constructor sets the moved-from value to Qnil
movedFrom(ruby_io) == RNil

\* ruby_io.respond_to("writable?") && ruby_io.call("writable?").test()
declaresWritable(obj) == obj.k = "io" /\ obj.writable = "yes"

\* IOStream::IOStream: io(std::move(ruby_io)), then openReadOnly from ruby_io
IOStream_new(ruby_io) ==
    [alive |-> TRUE, openReadOnly |-> declaresWritable(movedFrom(ruby_io))]

\* IOStream::readOnly
IOStream_readOnly(st) == st.openReadOnly

IOStream_delete_closesIO(r) == [r EXCEPT !.closed = TRUE]

\* IOStream::~IOStream = default: the reference to the IO is dropped; what it does
\* to the caller's IO
IOStream_delete(r) == r

\* stream.reset()
stream_reset(st, r) == IF st.alive THEN IOStream_delete(r) ELSE r

\* IOStream::isIO
isIO(obj) == obj.k = "io"

\* rubyObjectToTagLibAudioPropertiesReadStyle: whether it raises ArgumentError
badReadStyle(readStyle) ==
    /\ ~(readStyle.k = "nil" \/ (readStyle.k = "bool" /\ ~readStyle.v))
    /\ ~(readStyle.k = "symbol" /\ readStyle.v \in {"fast", "accurate", "average"})

\* Object::test()
test(obj) == ~(obj.k = "nil" \/ (obj.k = "bool" /\ ~obj.v))

\* what TagLib holds once it parsed file: the fields it read, read-only or not
Loaded(major, file, readAudioProperties, readOnly) ==
    [major |-> major, tag |-> file.tag, props |-> file.props, complex |-> file.complex,
     readOnly |-> readOnly, audio |-> test(readAudioProperties), saved |-> TRUE]

Built(h, st, l, r, raised) ==
    [fileRef |-> h, stream |-> st, lib |-> l, io |-> r, raised |-> raised, released |-> <<>>]

\* the members a path releases, in the order it releases them: "fileRef" the
\* TagLib::FileRef made over the adapter, "stream" the adapter (when there is one)
Releasing(b, st, order) ==
    [b EXCEPT !.released = IF st.alive THEN order
                           ELSE SelectSeq(order, LAMBDA m : m # "stream")]

\* FileRef::FileRef. parse is what TagLib made of the input ("valid", "null": no
\* file type found, "invalid": a file that is not valid, "raise": the IO raised
\* while TagLib read it), file what it read, n how many bytes it read of an IO,
\* pathReadOnly whether it had to open the path read-only; a path TagLib cannot
\* read gives a null handle, never an exception. A constructor that throws
\* destroys the members it built and leaves no object.
FileRef_new(fileOrStream, readAudioProperties, parse, file, pathReadOnly, major, r, n) ==
    IF badReadStyle(readAudioProperties)
    THEN Built("unbuilt", NullStream, NoFile(major), r, "ArgumentError")
    ELSE IF isIO(fileOrStream)
    THEN LET st == IOStream_new(fileOrStream)
             rd == readBlock(r, n, 0)
         IN IF parse = "raise" \/ rd.raised
            THEN Releasing(Built("unbuilt", NullStream, NoFile(major),
                                 stream_reset(st, rd.io), "IOError"),
                           st, <<"fileRef", "stream">>)
            ELSE IF parse = "valid"
            THEN Built("valid", st,
                       Loaded(major, file, readAudioProperties, st.openReadOnly),
                       rd.io, "none")
            ELSE Releasing(Built(parse, NullStream, NoFile(major),
                                 stream_reset(st, rd.io), "none"),
                           st, <<"stream">>)
    ELSE IF fileOrStream.k \notin {"pathname", "string"}
    THEN Built("unbuilt", NullStream, NoFile(major), r, "TypeError")
    ELSE LET pathStr == IF fileOrStream.k = "pathname" THEN fileOrStream.v ELSE fileOrStream
         IN IF Len(pathStr.bytes) > 0
            THEN IF parse = "valid"
                 THEN Built("valid", NullStream,
                            Loaded(major, file, readAudioProperties, pathReadOnly), r, "none")
                 ELSE Built(IF parse = "raise" THEN "null" ELSE parse,
                            NullStream, NoFile(major), r, "none")
            ELSE Built("null", NullStream, NoFile(major), r, "none")

\* FileRef::close
FileRef_close(h, st, l, r) ==
    IF isValid(h)
    THEN Releasing(Built("null", NullStream, NoFile(l.major), stream_reset(st, r), "none"),
                   st, <<"fileRef", "stream">>)
    ELSE Built(h, st, l, r, "none")

\* FileRef::~FileRef = default: the members go in reverse order, stream then fileRef
FileRef_delete(h, st, l, r) ==
    Releasing(Built("destroyed", NullStream, NoFile(l.major), stream_reset(st, r), "none"),
              st, <<"stream", "fileRef">>)

\* FileRef::save. TagLib writes a file opened through the adapter with
\* IOStream::insert (w: the data, start and replace TagLib chose); a read-only
\* file it leaves alone. The IO's exception passes through save.
FileRef_save(h, l, st, r, w) ==
    IF raiseInvalid(h) THEN [out |-> Out(l, "TagLib::Error", RNil, FALSE), io |-> r]
    ELSE IF ~isValid(h) THEN [out |-> Out(l, "null dereference", RNil, TRUE), io |-> r]
    ELSE IF l.readOnly THEN [out |-> Out(l, "none", RNil, TRUE), io |-> r]
    ELSE IF ~st.alive THEN [out |-> Out([l EXCEPT !.saved = TRUE], "none", RNil, TRUE), io |-> r]
    ELSE LET wr == insert(r, w.data, w.start, w.replace, 0)
         IN [out |-> Out([l EXCEPT !.saved = ~wr.raised],
                         IF wr.raised THEN "IOError" ELSE "none", RNil, TRUE),
             io |-> wr.io]

---------------------------------------------------------------------------
(* Spec: the life of one FileRef. refOp holds the call in hand, with the   *)
(* state it was made in, until it returns.                                 *)

Majors == {1, 2}

\* what the caller hands the constructor: an IO with or without writable?,
\* a path, an empty path, a Pathname, something else
Sources ==
    {[k |-> "io", writable |-> w] : w \in {"absent", "no", "yes"}}
        \cup {RStr("UTF-8", <<47>>), RStr("UTF-8", <<>>),
              [k |-> "pathname", v |-> RStr("UTF-8", <<47>>)], RInt(1)}

ReadStyles == {RNil, RSym("fast"), RSym("bogus")}

Parses == {"valid", "null", "invalid", "raise"}

Files ==
    {[tag |-> ZeroTag, props |-> <<>>, complex |-> <<>>],
     [tag |-> [ZeroTag EXCEPT !.title = <<233>>, !.year = 1],
      props |-> [x \in {<<65>>} |-> <<<<120>>>>],
      complex |-> [x \in {<<80>>} |-> <<[y \in {<<107>>} |-> Variant("LongLong", 1)]>>]]}

SaveWrites == [data : {<<>>, <<1>>}, start : 0..1, replace : 0..1]

SmallProperties ==
    {RHash(<<>>),
     RHash(<< <<RStr("UTF-8", <<65>>), RArr(<<RStr("UTF-8", <<120>>)>>)>> >>),
     RHash(<< <<RStr("UTF-8", <<65>>), RArr(<<>>)>> >>)}

SmallTags ==
    {RHash(<< <<RSym("title"), RStr("UTF-8", <<65>>)>> >>),
     RHash(<< <<RSym("year"), RNil>>, <<RSym("bogus"), RNil>> >>)}

SmallComplex ==
    {RHash(<<>>),
     RHash(<< <<RStr("UTF-8", <<80>>),
                RArr(<<RHash(<< <<RStr("UTF-8", <<107>>), RInt(1)>> >>)>>)>> >>)}

ComplexKeys == {RStr("UTF-8", <<80>>), RStr("UTF-8", <<81>>)}

RefDoneReleasing(name, arg, all, out, h, st, r, released) ==
    /\ fileRef' = h
    /\ stream' = st
    /\ io' = r
    /\ lib' = out.lib
    /\ refOp' = [name |-> name, arg |-> arg, all |-> all, handle |-> fileRef,
                 streamBefore |-> stream, before |-> lib, ioBefore |-> io,
                 raised |-> out.raised, ret |-> out.ret, touched |-> out.touched,
                 released |-> released]
    /\ UNCHANGED <<ioOp, conv>>

RefDone(name, arg, all, out, h, st, r) ==
    RefDoneReleasing(name, arg, all, out, h, st, r, <<>>)

\* a method of the FileRef that leaves the handle, the adapter and the IO alone
Called(name, arg, all, out) == RefDone(name, arg, all, out, fileRef, stream, io)

Idle == refOp.name = "none"

Built0 == fileRef \in {"valid", "null", "invalid"}

\* FileRef.new(fileOrStream, readAudioProperties); TagLib reads n bytes of an IO
Construct ==
    /\ Idle /\ fileRef \in {"unbuilt", "destroyed"}
    /\ \E src \in Sources, style \in ReadStyles, parse \in Parses, file \in Files,
          ro \in BOOLEAN, n \in {0, 2} :
         LET b == FileRef_new(src, style, parse, file, ro, lib.major, io, n)
         IN RefDoneReleasing("new", src, FALSE, Out(b.lib, b.raised, RNil, FALSE),
                            b.fileRef, b.stream, b.io, b.released)

Close ==
    /\ Idle /\ Built0
    /\ LET b == FileRef_close(fileRef, stream, lib, io)
       IN RefDoneReleasing("close", RNil, FALSE, Out(b.lib, b.raised, RNil, FALSE),
                            b.fileRef, b.stream, b.io, b.released)

\* the garbage collector frees the FileRef
Delete ==
    /\ Idle /\ Built0
    /\ LET b == FileRef_delete(fileRef, stream, lib, io)
       IN RefDoneReleasing("delete", RNil, FALSE, Out(b.lib, b.raised, RNil, FALSE),
                            b.fileRef, b.stream, b.io, b.released)

IsValid ==
    /\ Idle /\ Built0
    /\ Called("isValid", RNil, FALSE, Out(lib, "none", RBool(isValid(fileRef)), TRUE))

IsReadOnly ==
    /\ Idle /\ Built0
    /\ Called("isReadOnly", RNil, FALSE, FileRef_isReadOnly(fileRef, lib))

AudioProperties ==
    /\ Idle /\ Built0
    /\ Called("audioProperties", RNil, FALSE, FileRef_audioProperties(fileRef, lib))

Tag ==
    /\ Idle /\ Built0
    /\ Called("tag", RNil, FALSE, FileRef_tag(fileRef, lib))

MergeTagPropertiesOf(Updates) ==
    /\ Idle /\ Built0
    /\ \E in_obj \in Updates :
         Called("mergeTagProperties", in_obj, FALSE,
                FileRef_mergeTagProperties(fileRef, lib, in_obj))

Properties ==
    /\ Idle /\ Built0
    /\ Called("properties", RNil, FALSE, FileRef_properties(fileRef, lib))

MergePropertiesOf(Updates) ==
    /\ Idle /\ Built0
    /\ \E in \in Updates, replace_all \in BOOLEAN :
         Called("mergeProperties", in, replace_all,
                FileRef_mergeProperties(fileRef, lib, in, replace_all))

ComplexPropertyKeys ==
    /\ Idle /\ Built0
    /\ Called("complexPropertyKeys", RNil, FALSE, FileRef_complexPropertyKeys(fileRef, lib))

ComplexProperty ==
    /\ Idle /\ Built0
    /\ \E key \in ComplexKeys :
         Called("complexProperty", key, FALSE, FileRef_complexProperty(fileRef, lib, key))

MergeComplexPropertiesOf(Updates) ==
    /\ Idle /\ Built0
    /\ \E in \in Updates, replace_all \in BOOLEAN :
         Called("mergeComplexProperties", in, replace_all,
                FileRef_mergeComplexProperties(fileRef, lib, in, replace_all))

Save ==
    /\ Idle /\ Built0
    /\ \E w \in SaveWrites :
         LET s == FileRef_save(fileRef, lib, stream, io, w)
         IN RefDone("save", RNil, FALSE, s.out, fileRef, stream, s.io)

\* the call has returned (or raised) to the caller
RefReturn ==
    /\ ~Idle
    /\ refOp' = IdleRefOp
    /\ UNCHANGED <<io, ioOp, conv, fileRef, stream, lib>>

Next ==
    \/ Construct \/ Close \/ Delete
    \/ IsValid \/ IsReadOnly \/ AudioProperties \/ Tag \/ Properties
    \/ MergeTagPropertiesOf(SmallTags) \/ MergePropertiesOf(SmallProperties)
    \/ ComplexPropertyKeys \/ ComplexProperty \/ MergeComplexPropertiesOf(SmallComplex)
    \/ Save
    \/ RefReturn

Init ==
    /\ io \in [content : {<<1, 2>>}, pos : {0}, closed : BOOLEAN]
    /\ ioOp = NoIoOp
    /\ conv = IdleConv
    /\ fileRef = "unbuilt"
    /\ stream = NullStream
    /\ lib \in {NoFile(major) : major \in Majors}
    /\ refOp = IdleRefOp

Spec == Init /\ [][Next]_vars

---------------------------------------------------------------------------
(* SpecProps: mergeProperties and properties on one valid handle *)

\* an empty Array, Arrays of one and two Strings, a String alone, and a value
\* that is no String
PropValues ==
    {RArr(<<>>), RArr(<<RStr("UTF-8", <<120>>)>>),
     RArr(<<RStr("UTF-8", <<195, 169>>), RStr("UTF-8", <<120>>)>>),
     RStr("UTF-8", <<120>>), RInt(1)}

\* "A" and "b": TagLib stores the second as "B"
PropKeys == {RStr("UTF-8", <<65>>), RStr("UTF-8", <<98>>)}

PropEntries == {<<key, value>> : key \in PropKeys, value \in PropValues}

PropUpdates ==
    {RHash(<<>>)} \cup {RHash(<<e>>) : e \in PropEntries}
        \cup {RHash(<<p[1], p[2]>>) : p \in {q \in PropEntries \X PropEntries : q[1][1] # q[2][1]}}

StoredKeys == {<<65>>, <<66>>, <<67>>}

StoredLists == {<<<<120>>>>, <<<<233>>, <<121>>>>}

\* the PropertyMaps the file may hold when it is opened
CurrentMaps == UNION {[K -> StoredLists] : K \in SUBSET StoredKeys}

InitProps ==
    /\ io = [content |-> <<>>, pos |-> 0, closed |-> FALSE]
    /\ ioOp = NoIoOp
    /\ conv = IdleConv
    /\ fileRef = "valid"
    /\ stream = NullStream
    /\ lib \in {Loaded(2, [tag |-> ZeroTag, props |-> m, complex |-> <<>>], RNil, FALSE) :
                   m \in CurrentMaps}
    /\ refOp = IdleRefOp

NextProps == MergePropertiesOf(PropUpdates) \/ Properties \/ RefReturn

SpecProps == InitProps /\ [][NextProps]_vars

---------------------------------------------------------------------------
(* SpecTag: tag and mergeTagProperties on one valid handle *)

\* the text a tag field holds when the file is opened: TagLib's String(ByteVector)
\* ends at the first NUL, so text parsed from a file holds none
TagTexts == {<<>>, <<65>>, <<233, 321>>}

TagKeys == {RSym("title"), RSym("year"), RSym("comment"), RSym("bogus")}

TagValues == {RNil, RStr("UTF-8", <<195, 169>>), RInt(2)}

TagEntries == {<<key, value>> : key \in TagKeys, value \in TagValues}

TagUpdates ==
    {RHash(<<>>)} \cup {RHash(<<e>>) : e \in TagEntries}
        \cup {RHash(<<p[1], p[2]>>) : p \in {q \in TagEntries \X TagEntries : q[1][1] # q[2][1]}}

\* ref.merge_tag_properties(ref.tag): the record tag() returns merged back
MergeTagRead ==
    /\ Idle /\ Built0
    /\ LET t == FileRef_tag(fileRef, lib)
       IN /\ t.raised = "none"
          /\ Called("mergeTagRead", t.ret, FALSE,
                    FileRef_mergeTagProperties(fileRef, lib, t.ret))

InitTag ==
    /\ io = [content |-> <<>>, pos |-> 0, closed |-> FALSE]
    /\ ioOp = NoIoOp
    /\ conv = IdleConv
    /\ fileRef = "valid"
    /\ stream = NullStream
    /\ lib \in {Loaded(2, [tag |-> [ZeroTag EXCEPT !.title = t, !.artist = a, !.year = y],
                           props |-> <<>>, complex |-> <<>>], RNil, FALSE) :
                   t \in TagTexts, a \in {<<>>, <<66>>}, y \in 0..(2 ^ IntBits - 1)}
    /\ refOp = IdleRefOp

NextTag == Tag \/ MergeTagPropertiesOf(TagUpdates) \/ MergeTagRead \/ RefReturn

SpecTag == InitTag /\ [][NextTag]_vars

---------------------------------------------------------------------------
(* SpecConv: one typed value taken to Ruby and back *)

MaxStrLen == 2      \* longest String / ByteVector
MaxListLen == 2     \* longest StringList / ByteVectorList / VariantList
MaxMapKeys == 2     \* most keys of a VariantMap

TextChars == {0, 65, 233}           \* NUL, 'A', e-acute

ByteChars == {0, 65, 200}

Strings == SeqsUpTo(TextChars, MaxStrLen)

ByteVectors == SeqsUpTo(ByteChars, MaxStrLen)

Integers32 ==
    {Variant("Int", n) : n \in -(2 ^ (IntBits - 1))..(2 ^ (IntBits - 1) - 1)}
        \cup {Variant("UInt", n) : n \in 0..(2 ^ IntBits - 1)}

Integers64 ==
    {Variant("LongLong", n) : n \in LLMin..LLMax}
        \cup {Variant("ULongLong", n) : n \in 0..(2 ^ LLBits - 1)}

ListStrings == {<<>>, <<65>>, <<65, 0>>, <<233>>}

ListByteVectors == {<<>>, <<65>>, <<0, 200>>}

Leaves ==
    {Variant("Bool", b) : b \in BOOLEAN} \cup Integers32 \cup Integers64
        \cup {Variant("String", x) : x \in Strings}
        \cup {Variant("ByteVector", x) : x \in ByteVectors}
        \cup {Variant("StringList", x) : x \in SeqsUpTo(ListStrings, MaxListLen)}
        \cup {Variant("ByteVectorList", x) : x \in SeqsUpTo(ListByteVectors, MaxListLen)}
        \cup {Void}

ListItems ==
    {Variant("Bool", TRUE), Variant("Int", -1), Variant("ULongLong", 2 ^ LLBits - 1),
     Variant("String", <<233>>), Variant("ByteVector", <<65>>),
     Variant("StringList", <<>>), Variant("StringList", <<<<65>>>>), Void}

\* 'k', e-acute, L-stroke (above Latin-1), and a key with a NUL inside
MapKeys == {<<107>>, <<233>>, <<321>>, <<65, 0, 66>>}

MapItems == {Variant("LongLong", 1), Variant("String", <<233>>), Void}

MapsOver(items) ==
    UNION {[K -> items] : K \in {S \in SUBSET MapKeys : Cardinality(S) <= MaxMapKeys}}

Nested1 ==
    {Variant("VariantList", x) : x \in SeqsUpTo(ListItems, MaxListLen)}
        \cup {Variant("VariantMap", m) : m \in MapsOver(MapItems)}

NestedItems ==
    {Variant("VariantList", <<>>),
     Variant("VariantList", <<Variant("Bool", TRUE), Variant("UInt", 1)>>),
     Variant("VariantList", <<Variant("String", <<65>>)>>),
     Variant("VariantMap", <<>>),
     Variant("VariantMap", [k \in {<<107>>} |-> Variant("StringList", <<<<233>>>>)])}

Nested2 ==
    {Variant("VariantList", x) : x \in SeqsUpTo(NestedItems, MaxListLen)}
        \cup {Variant("VariantMap", [k \in {<<107>>} |-> x]) : x \in NestedItems}

Values == Leaves \cup Nested1 \cup Nested2

InitConv ==
    /\ conv \in [phase : {"typed"}, v : Values, dyn : {RNil}, back : {Void}]
    /\ io = [content |-> <<>>, pos |-> 0, closed |-> FALSE]
    /\ ioOp = NoIoOp
    /\ fileRef = "unbuilt"
    /\ stream = NullStream
    /\ lib = IdleLib
    /\ refOp = IdleRefOp

ToRuby ==
    /\ conv.phase = "typed"
    /\ conv' = [conv EXCEPT !.phase = "ruby", !.dyn = taglibVariantToRuby(conv.v)]
    /\ UNCHANGED <<io, ioOp, fileRef, stream, lib, refOp>>

ToTagLib ==
    /\ conv.phase = "ruby"
    /\ conv' = [conv EXCEPT !.phase = "back", !.back = rubyObjectToTagLibVariant(conv.dyn)]
    /\ UNCHANGED <<io, ioOp, fileRef, stream, lib, refOp>>

NextConv == ToRuby \/ ToTagLib

SpecConv == InitConv /\ [][NextConv]_vars

---------------------------------------------------------------------------
(* SpecComplex: complex properties of one valid handle, TagLib 2 *)

\* a picture-like map k -> 1, and a map k -> e-acute
StoredMaps ==
    {[y \in {<<107>>} |-> Variant("LongLong", 1)],
     [y \in {<<107>>} |-> Variant("String", <<233>>)]}

StoredComplexLists == {<<m>> : m \in StoredMaps} \cup {<<m1, m2>> : m1, m2 \in StoredMaps}

\* "P", "Q", "R"
StoredComplexKeys == {<<80>>, <<81>>, <<82>>}

\* the complex properties the file may hold when it is opened
CurrentComplex == UNION {[K -> StoredComplexLists] : K \in SUBSET StoredComplexKeys}

ComplexMaps ==
    {RHash(<< <<RStr("UTF-8", <<107>>), RInt(1)>> >>),
     RHash(<< <<RStr("UTF-8", <<107>>), RStr("UTF-8", <<195, 169>>)>> >>),
     RHash(<<>>)}

\* nil, empty, one map, two maps, and two values the conversion refuses
ComplexValues ==
    {RNil, RArr(<<>>)} \cup {RArr(<<m>>) : m \in ComplexMaps}
        \cup {RArr(<<RHash(<< <<RStr("UTF-8", <<107>>), RInt(1)>> >>), RHash(<<>>)>>),
              RInt(1), RArr(<<RInt(1)>>)}

\* "P" and "Q"
ComplexUpdateKeys == {RStr("UTF-8", <<80>>), RStr("UTF-8", <<81>>)}

ComplexEntries == {<<key, value>> : key \in ComplexUpdateKeys, value \in ComplexValues}

ComplexUpdates ==
    {RHash(<<>>)} \cup {RHash(<<e>>) : e \in ComplexEntries}
        \cup {RHash(<<p[1], p[2]>>) :
                 p \in {q \in ComplexEntries \X ComplexEntries : q[1][1] # q[2][1]}}

InitComplex ==
    /\ io = [content |-> <<>>, pos |-> 0, closed |-> FALSE]
    /\ ioOp = NoIoOp
    /\ conv = IdleConv
    /\ fileRef = "valid"
    /\ stream = NullStream
    /\ lib \in {Loaded(2, [tag |-> ZeroTag, props |-> <<>>, complex |-> m], RNil, FALSE) :
                   m \in CurrentComplex}
    /\ refOp = IdleRefOp

NextComplex ==
    MergeComplexPropertiesOf(ComplexUpdates) \/ ComplexPropertyKeys \/ ComplexProperty
        \/ RefReturn

SpecComplex == InitComplex /\ [][NextComplex]_vars

---------------------------------------------------------------------------
(* SpecDyn: one Ruby object taken to TagLib, as a Variant or as a String *)

MaxDynLen == 2      \* longest Array handed to the conversion

\* Strings of each encoding the conversions tell apart: binary, UTF-8 ('A',
\* e-acute), Latin-1 (e-acute), UTF-16LE / BE ('A', e-acute), UTF-16 with a
\* byte order mark, and EUC-JP as an encoding Ruby has to transcode ('A')
DynStrings ==
    {RStr("ASCII-8BIT", <<200>>), RStr("ASCII-8BIT", <<65>>),
     RStr("UTF-8", <<65>>), RStr("UTF-8", <<195, 169>>),
     RStr("US-ASCII", <<65>>),
     RStr("ISO-8859-1", <<233>>),
     RStr("UTF-16LE", <<65, 0>>), RStr("UTF-16LE", <<233, 0>>),
     RStr("UTF-16BE", <<0, 233>>),
     RStr("UTF-16", <<255, 254, 233, 0>>),
     RStr("EUC-JP", <<65>>)}

\* nil, true, false, an Integer, an Integer above long long, a Symbol (a shape
\* the conversion does not know)
DynScalars == {RNil, RBool(TRUE), RBool(FALSE), RInt(1), RInt(LLMax + 1), RSym("x")}

DynItems ==
    {RStr("ASCII-8BIT", <<200>>), RStr("UTF-8", <<195, 169>>), RStr("ISO-8859-1", <<233>>),
     RStr("UTF-16LE", <<233, 0>>), RNil, RInt(1), RSym("x"), RArr(<<>>)}

DynArrays == {RArr(x) : x \in SeqsUpTo(DynItems, MaxDynLen)}

DynNested ==
    {RArr(<<RInt(1), RArr(<<RStr("UTF-8", <<65>>), RInt(1)>>)>>),
     RArr(<<RArr(<<RStr("ASCII-8BIT", <<65>>), RStr("UTF-8", <<65>>)>>)>>),
     RArr(<<RHash(<< <<RStr("UTF-8", <<107>>), RSym("x")>> >>)>>)}

DynHashes ==
    {RHash(<<>>)}
        \cup {RHash(<< <<key, value>> >>) :
                 key \in {RStr("UTF-8", <<107>>), RInt(1)},
                 value \in DynItems \cup {RArr(<<RStr("UTF-8", <<65>>), RInt(1)>>)}}

DynValues == DynStrings \cup DynScalars \cup DynArrays \cup DynNested \cup DynHashes

InitDyn ==
    /\ conv \in [phase : {"dynamic"}, v : {Void}, dyn : DynValues, back : {Void}]
    /\ io = [content |-> <<>>, pos |-> 0, closed |-> FALSE]
    /\ ioOp = NoIoOp
    /\ fileRef = "unbuilt"
    /\ stream = NullStream
    /\ lib = IdleLib
    /\ refOp = IdleRefOp

\* rubyObjectToTagLibVariant(dyn)
ToVariant ==
    /\ conv.phase = "dynamic"
    /\ conv' = [conv EXCEPT !.phase = "variant", !.back = rubyObjectToTagLibVariant(conv.dyn)]
    /\ UNCHANGED <<io, ioOp, fileRef, stream, lib, refOp>>

\* rubyStringToTagLibString(dyn), as a tag field or a property key takes it
ToTagLibString ==
    /\ conv.phase = "dynamic"
    /\ IsRubyString(conv.dyn)
    /\ conv' = [conv EXCEPT !.phase = "string",
                            !.back = Variant("String", rubyStringToTagLibString(conv.dyn))]
    /\ UNCHANGED <<io, ioOp, fileRef, stream, lib, refOp>>

NextDyn == ToVariant \/ ToTagLibString

SpecDyn == InitDyn /\ [][NextDyn]_vars

---------------------------------------------------------------------------
(* Claims on the stream adapter, under SpecIO *)

Spliced(R, data, start, n) == Take(R, start) \o data \o Drop(R, start + n)

\* C1: after insert(data, start, replaceLength) completes without an error from the
\* resource, for 0 <= start <= len(R) and every replaceLength >= 0 (0 included), the
\* content is R[0:start] + data + R[start+replaceLength:] and its length is
\* start + len(data) + len(R[start+replaceLength:]).
C1_InsertSplices ==
    (ioOp.name = "insert" /\ ~ioOp.raised /\ ioOp.start <= Len(ioOp.R)) =>
        /\ io.content = Spliced(ioOp.R, ioOp.data, ioOp.start, ioOp.n)
        /\ Len(io.content) =
              ioOp.start + Len(ioOp.data) + Len(Drop(ioOp.R, ioOp.start + ioOp.n))

\* C2: after removeBlock(start, length) completes without an error from the resource,
\* for start + length <= len(R), the content is R[0:start] + R[start+length:] and the
\* resource was truncated, as the last call, to start + len(R[start+length:]) bytes.
C2_RemoveBlockSplices ==
    (ioOp.name = "removeBlock" /\ ~ioOp.raised /\ ioOp.start + ioOp.n <= Len(ioOp.R)) =>
        /\ io.content = Spliced(ioOp.R, <<>>, ioOp.start, ioOp.n)
        /\ Len(io.content) = ioOp.start + Len(Drop(ioOp.R, ioOp.start + ioOp.n))
        /\ ioOp.calls[Len(ioOp.calls)] = "truncate"

\* a removeBlock that took bytes out of the middle of the resource
C2_Witness ==
    /\ ioOp.name = "removeBlock" /\ ~ioOp.raised
    /\ ioOp.start > 0 /\ ioOp.n > 0
    /\ ioOp.start + ioOp.n < Len(ioOp.R)
    /\ io.content = <<ioOp.R[1], ioOp.R[Len(ioOp.R)]>>

---------------------------------------------------------------------------
(* Claims on the conversions, under SpecConv *)

\* the value with every integer variant as the 64-bit signed one
RECURSIVE AsLongLong(_)
AsLongLong(value) ==
    CASE value.t \in {"Int", "UInt", "LongLong", "ULongLong"} -> Variant("LongLong", value.val)
      [] value.t = "VariantList" ->
            Variant("VariantList", [i \in 1..Len(value.val) |-> AsLongLong(value.val[i])])
      [] value.t = "VariantMap" ->
            Variant("VariantMap", [k \in DOMAIN value.val |-> AsLongLong(value.val[k])])
      [] OTHER -> value

NoNul(str) == \A i \in 1..Len(str) : str[i] # 0

\* the values Ruby's objects can carry back: at every depth no empty list, no
\* VariantList headed by a String or ByteVector, integers within long long, text
\* without NUL, map keys within Latin-1
RECURSIVE Carried(_)
Carried(value) ==
    CASE value.t \in {"Int", "UInt", "LongLong", "ULongLong"} ->
            value.val >= LLMin /\ value.val <= LLMax
      [] value.t = "String" -> NoNul(value.val)
      [] value.t = "StringList" ->
            Len(value.val) > 0 /\ \A i \in 1..Len(value.val) : NoNul(value.val[i])
      [] value.t = "ByteVectorList" -> Len(value.val) > 0
      [] value.t = "VariantList" ->
            /\ Len(value.val) > 0
            /\ value.val[1].t \notin {"String", "ByteVector"}
            /\ \A i \in 1..Len(value.val) : Carried(value.val[i])
      [] value.t = "VariantMap" ->
            \A k \in DOMAIN value.val :
                /\ NoNul(k) /\ \A i \in 1..Len(k) : k[i] < 256
                /\ Carried(value.val[k])
      [] OTHER -> TRUE

---------------------------------------------------------------------------
(* Claims about the FileRef's handle *)

TypedOps ==
    {"isReadOnly", "audioProperties", "tag", "properties", "mergeProperties",
     "mergeTagProperties", "complexPropertyKeys", "complexProperty",
     "mergeComplexProperties", "save"}

\* C3: close() and a constructor given an empty path leave a handle that is not
\* valid, and on a handle that is not valid each of the ten operations raises
\* TagLib::Error before it touches the handle: it returns nothing and the handle,
\* the adapter, what they hold and the IO stay as they were.
C3_InvalidHandleRaises ==
    /\ refOp.name = "close" => ~isValid(fileRef)
    /\ (refOp.name = "new" /\ refOp.raised = "none" /\ IsRubyString(refOp.arg)
            /\ Len(refOp.arg.bytes) = 0) => fileRef = "null"
    /\ (refOp.name \in TypedOps /\ refOp.handle # "valid") =>
           /\ refOp.raised = "TagLib::Error"
           /\ ~refOp.touched
           /\ lib = refOp.before
           /\ fileRef = refOp.handle
           /\ stream = refOp.streamBefore
           /\ io = refOp.ioBefore

C3_Witness ==
    /\ refOp.name = "mergeComplexProperties"
    /\ refOp.handle = "null"
    /\ Len(refOp.arg.v) > 0
    /\ refOp.raised = "TagLib::Error"

\* C4: no call on a FileRef (construction, a failed parse, a query, a merge, save,
\* close, a second close, destruction) changes whether the caller's IO is open,
\* and close() on a valid handle leaves a null handle and no adapter and does
\* nothing to the IO.
C4_ResourceNeverClosed ==
    /\ refOp.name # "none" => io.closed = refOp.ioBefore.closed
    /\ (refOp.name = "close" /\ refOp.handle = "valid") =>
           /\ fileRef = "null"
           /\ ~stream.alive
           /\ io = refOp.ioBefore

C4_Witness ==
    /\ refOp.name \in {"close", "delete"}
    /\ refOp.streamBefore.alive
    /\ ~stream.alive
    /\ ~io.closed

---------------------------------------------------------------------------
(* Claims about mergeProperties *)

\* the key a PropertyMap stores for a Ruby key
KeyAsStored(key) == upper(StringFromUTF8(key.bytes))

UpdateKeys(in) == {KeyAsStored(in.v[i][1]) : i \in 1..Len(in.v)}

\* properties[key], the empty list for a key the map does not hold
ValuesOf(properties, key) == IF key \in DOMAIN properties THEN properties[key] ELSE <<>>

Merged(all) ==
    /\ refOp.name = "mergeProperties"
    /\ refOp.all = all
    /\ refOp.raised = "none"

\* C6: after mergeProperties(updates, replace_all = true) every key of the
\* PropertyMap is a key of updates.
C6_ReplaceAllKeys == Merged(TRUE) => DOMAIN lib.props \subseteq UpdateKeys(refOp.arg)

C6_Witness ==
    /\ Merged(TRUE)
    /\ Len(refOp.arg.v) > 0
    /\ lib.props # <<>>
    /\ ~(DOMAIN refOp.before.props \subseteq UpdateKeys(refOp.arg))

\* C7: the PropertyMap the file holds never maps a key to an empty list, and a
\* key whose update is an empty list is gone after the merge.
C7_NoEmptyLists ==
    /\ \A key \in DOMAIN lib.props : Len(lib.props[key]) > 0
    /\ (refOp.name = "mergeProperties" /\ refOp.raised = "none") =>
           \A i \in 1..Len(refOp.arg.v) :
               (refOp.arg.v[i][2] = RArr(<<>>)) =>
                   KeyAsStored(refOp.arg.v[i][1]) \notin DOMAIN lib.props

C7_Witness ==
    /\ refOp.name = "mergeProperties"
    /\ ~refOp.all
    /\ refOp.raised = "none"
    /\ \E i \in 1..Len(refOp.arg.v) :
           /\ refOp.arg.v[i][2] = RArr(<<>>)
           /\ KeyAsStored(refOp.arg.v[i][1]) \in DOMAIN refOp.before.props

\* C8: after mergeProperties(updates, replace_all = false) each key of updates
\* holds exactly its converted input list, each other key holds what it held, and
\* with no updates the PropertyMap is the one before.
C8_ReplacePerKey ==
    Merged(FALSE) =>
        /\ \A i \in 1..Len(refOp.arg.v) :
               ValuesOf(lib.props, KeyAsStored(refOp.arg.v[i][1]))
                   = rubyObjectToTagLibStringList(refOp.arg.v[i][2]).val
        /\ \A key \in StoredKeys \ UpdateKeys(refOp.arg) :
               ValuesOf(lib.props, key) = ValuesOf(refOp.before.props, key)
        /\ Len(refOp.arg.v) = 0 => lib.props = refOp.before.props

C8_Witness ==
    /\ Merged(FALSE)
    /\ \E i \in 1..Len(refOp.arg.v) :
           LET key == KeyAsStored(refOp.arg.v[i][1])
           IN /\ key \in DOMAIN refOp.before.props
              /\ key \in DOMAIN lib.props
              /\ lib.props[key] # refOp.before.props[key]
    /\ \E key \in DOMAIN refOp.before.props : key \notin UpdateKeys(refOp.arg)

---------------------------------------------------------------------------
(* Claims about tag and mergeTagProperties *)

KnownFields == TextFields \cup UIntFields

ZeroOf(field) == IF field \in TextFields THEN <<>> ELSE 0

\* the index of the first entry whose key is no tag field, 0 when there is none
FirstUnknown(entries) ==
    IF \A i \in 1..Len(entries) : entries[i][1].v \in KnownFields THEN 0
    ELSE CHOOSE i \in 1..Len(entries) :
             /\ entries[i][1].v \notin KnownFields
             /\ \A j \in 1..(i - 1) : entries[j][1].v \in KnownFields

\* the entry's value is one its field takes
WellTyped(entry) ==
    \/ entry[2] = RNil
    \/ entry[1].v \in TextFields /\ IsRubyString(entry[2])
    \/ entry[1].v \in UIntFields /\ entry[2].k = "integer" /\ entry[2].v \in 0..(2 ^ IntBits - 1)

\* what a field holds once a well-typed entry is assigned to it
Assigned(entry) ==
    IF entry[2] = RNil THEN ZeroOf(entry[1].v)
    ELSE IF entry[1].v \in TextFields THEN StringFromUTF8(entry[2].bytes)
    ELSE entry[2].v

\* what field holds after the first n entries were assigned in order
RECURSIVE AfterEntries(_, _, _, _)
AfterEntries(entries, n, field, held) ==
    IF n = 0 THEN held
    ELSE IF entries[n][1].v = field THEN Assigned(entries[n])
    ELSE AfterEntries(entries, n - 1, field, held)

\* C9: a call of mergeTagProperties that reaches a key outside the seven fields
\* raises KeyError there; the entries before it are assigned and stay assigned,
\* the entries after it are not applied.
C9_UnknownKeyStops ==
    LET entries == refOp.arg.v
        i == FirstUnknown(entries)
    IN (/\ refOp.name = "mergeTagProperties"
        /\ i > 0
        /\ \A j \in 1..(i - 1) : WellTyped(entries[j])) =>
           /\ refOp.raised = "KeyError"
           /\ \A field \in KnownFields :
                  lib.tag[field] = AfterEntries(entries, i - 1, field, refOp.before.tag[field])

C9_Witness ==
    /\ refOp.name = "mergeTagProperties"
    /\ FirstUnknown(refOp.arg.v) = 2
    /\ refOp.raised = "KeyError"
    /\ lib.tag # refOp.before.tag

\* the value of member field in the record tag() returned
Member(record, field) ==
    LET i == CHOOSE j \in 1..Len(record.v) : record.v[j][1].v = field IN record.v[i][2]

\* C10: tag() gives nil for a field exactly when the field holds its zero value;
\* mergeTagProperties given nil for a field stores the zero value, and tag()
\* then gives nil for it; the record tag() returns, merged back, changes no field.
C10_NilIsZero ==
    /\ refOp.name = "tag" =>
           \A field \in KnownFields :
               (Member(refOp.ret, field) = RNil) <=> (refOp.before.tag[field] = ZeroOf(field))
    /\ (refOp.name = "mergeTagProperties" /\ refOp.raised = "none") =>
           \A i \in 1..Len(refOp.arg.v) :
               (refOp.arg.v[i][2] = RNil) =>
                   /\ lib.tag[refOp.arg.v[i][1].v] = ZeroOf(refOp.arg.v[i][1].v)
                   /\ Member(FileRef_tag(fileRef, lib).ret, refOp.arg.v[i][1].v) = RNil
    /\ refOp.name = "mergeTagRead" =>
           /\ refOp.raised = "none"
           /\ lib.tag = refOp.before.tag

C10_Witness ==
    /\ refOp.name = "mergeTagRead"
    /\ Member(refOp.arg, "title") # RNil
    /\ Member(refOp.arg, "year") # RNil
    /\ Member(refOp.arg, "comment") = RNil
    /\ lib.tag = refOp.before.tag

---------------------------------------------------------------------------
(* Claims on the conversion from Ruby, under SpecDyn *)

AllStrings(arr) == \A i \in 1..Len(arr) : IsRubyString(arr[i])

\* C11: an Array is shaped by its first element: headed by a binary String it
\* becomes a ByteVectorList with one ByteVector per element (its bytes), whatever
\* the encoding of the later Strings; headed by another String it becomes a
\* StringList with one String per element; headed by anything else it becomes a
\* VariantList of the elements' own conversions; empty, it becomes the empty
\* Variant.
C11_FirstElementDecides ==
    (conv.phase = "variant" /\ conv.dyn.k = "array") =>
        LET arr == conv.dyn.v
        IN /\ Len(arr) = 0 => conv.back = Void
           /\ (Len(arr) > 0 /\ AllStrings(arr) /\ arr[1].enc = "ASCII-8BIT") =>
                  conv.back = Variant("ByteVectorList", [i \in 1..Len(arr) |-> arr[i].bytes])
           /\ (Len(arr) > 0 /\ AllStrings(arr) /\ arr[1].enc # "ASCII-8BIT") =>
                  /\ conv.back.t = "StringList"
                  /\ Len(conv.back.val) = Len(arr)
           /\ (Len(arr) > 0 /\ ~IsRubyString(arr[1]) /\ ~IsRaise(conv.back)) =>
                  /\ conv.back.t = "VariantList"
                  /\ Len(conv.back.val) = Len(arr)
                  /\ \A i \in 1..Len(arr) :
                         conv.back.val[i] = rubyObjectToTagLibVariant(arr[i])

\* a binary String followed by a UTF-8 String became two ByteVectors
C11_Witness ==
    /\ conv.phase = "variant"
    /\ conv.dyn = RArr(<<RStr("ASCII-8BIT", <<200>>), RStr("UTF-8", <<195, 169>>)>>)
    /\ conv.back = Variant("ByteVectorList", <<<<200>>, <<195, 169>>>>)

Unrecognized(obj) == obj.k \notin {"nil", "integer", "string", "array", "hash", "bool"}

\* C12: rubyObjectToTagLibVariant is total: whatever the Ruby object, an
\* unrecognized one and an Array or Hash holding such objects or mixing Strings
\* with other objects included, it returns a Variant and never raises; nil and an
\* unrecognized object give the empty Variant and an Integer gives the long long
\* Variant.
C12_Total ==
    conv.phase = "variant" =>
        /\ ~IsRaise(conv.back)
        /\ (conv.dyn = RNil \/ Unrecognized(conv.dyn)) => conv.back = Void
        /\ conv.dyn.k = "integer" => conv.back.t = "LongLong"

\* what the conversion does keep of it: nil and an unrecognized object give the
\* empty Variant, an Integer within long long the long long Variant, true and
\* false the bool Variant
ScalarsConvert ==
    conv.phase = "variant" =>
        /\ (conv.dyn = RNil \/ Unrecognized(conv.dyn)) => conv.back = Void
        /\ (conv.dyn.k = "integer" /\ conv.dyn.v \in LLMin..LLMax) =>
               conv.back = Variant("LongLong", conv.dyn.v)
        /\ conv.dyn.k = "bool" => conv.back = Variant("Bool", conv.dyn.v)

---------------------------------------------------------------------------
(* Claims on the adapter's read-only flag, under Spec *)

\* C13: readOnly() of an adapter is true exactly when the IO it wraps did not
\* declare itself writable when the adapter was built (it has no writable?
\* method, or writable? answered false), and false for an IO that did.
C13_ReadOnlyUnlessWritable ==
    (refOp.name = "new" /\ isIO(refOp.arg) /\ stream.alive) =>
        (IOStream_readOnly(stream) <=> refOp.arg.writable # "yes")

---------------------------------------------------------------------------
(* Claims on length() and on a raising IO, under SpecIO *)

\* C14: whatever the content and the position p of the IO, a length() that
\* returns gives the total length of the content and leaves the position at p
\* and the content as it was.
C14_LengthRestoresPosition ==
    (ioOp.name = "length" /\ ~ioOp.raised) =>
        /\ ioOp.ret = Len(ioOp.R)
        /\ io.pos = ioOp.p
        /\ io.content = ioOp.R

\* length() returned 2 with the position left at 1, inside the content
C14_Witness ==
    /\ ioOp.name = "length" /\ ~ioOp.raised
    /\ Len(ioOp.R) = 2 /\ ioOp.p = 1
    /\ ioOp.ret = 2 /\ io.pos = 1
    /\ ioOp.calls = <<"tell", "seek", "tell", "seek">>

---------------------------------------------------------------------------
(* Claims on mergeComplexProperties, under SpecComplex *)

ComplexUpdateKeysOf(in) == {rubyStringToTagLibString(in.v[i][1]) : i \in 1..Len(in.v)}

\* C15: after a mergeComplexProperties(updates, replace_all) that returned, every
\* key of updates holds exactly the converted list of its entry; with
\* replace_all every key the file held before that updates does not name holds
\* the empty list; without it every key updates does not name holds the list it
\* held before, and a key of updates holds the new list alone, not the old one
\* followed by the new.
C15_ComplexMerge ==
    (refOp.name = "mergeComplexProperties" /\ refOp.raised = "none") =>
        LET in == refOp.arg
            was == refOp.before.complex
        IN /\ \A i \in 1..Len(in.v) :
                  File_complexProperties(lib.complex, rubyStringToTagLibString(in.v[i][1]))
                      = rubyObjectToTagLibComplexProperty(in.v[i][2]).val
           /\ refOp.all =>
                  \A key \in DOMAIN was \ ComplexUpdateKeysOf(in) :
                      File_complexProperties(lib.complex, key) = <<>>
           /\ ~refOp.all =>
                  \A key \in StoredComplexKeys \ ComplexUpdateKeysOf(in) :
                      File_complexProperties(lib.complex, key)
                          = File_complexProperties(was, key)

\* without replace_all, "P" held two maps and was given one: it holds that one,
\* and "R" holds what it held
C15_Witness ==
    /\ refOp.name = "mergeComplexProperties" /\ refOp.raised = "none" /\ ~refOp.all
    /\ refOp.arg = RHash(<< <<RStr("UTF-8", <<80>>),
                              RArr(<<RHash(<< <<RStr("UTF-8", <<107>>), RInt(1)>> >>)>>)>> >>)
    /\ <<80>> \in DOMAIN refOp.before.complex /\ Len(refOp.before.complex[<<80>>]) = 2
    /\ <<82>> \in DOMAIN refOp.before.complex
    /\ lib.complex[<<80>>] = <<[y \in {<<107>>} |-> Variant("LongLong", 1)]>>
    /\ lib.complex[<<82>>] = refOp.before.complex[<<82>>]

\* with replace_all, "Q" and "R" were held and only "P" was given: they are gone
C15_WitnessReplaceAll ==
    /\ refOp.name = "mergeComplexProperties" /\ refOp.raised = "none" /\ refOp.all
    /\ DOMAIN refOp.before.complex = {<<81>>, <<82>>}
    /\ DOMAIN lib.complex = {<<80>>}

---------------------------------------------------------------------------
(* Claims on complex properties without TagLib 2, under Spec *)

ComplexOps == {"complexPropertyKeys", "complexProperty", "mergeComplexProperties"}

Unsupported == refOp.name \in ComplexOps /\ refOp.handle = "valid" /\ refOp.before.major < 2

\* C16: with a TagLib major version below 2, complexPropertyKeys, complexProperty
\* and mergeComplexProperties on a valid handle each raise NotImplementedError
\* whatever the argument, an empty updates Hash included.
C16_UnsupportedAlwaysRaises ==
    Unsupported => refOp.raised = "NotImplementedError"

\* C16, as the code has it: with a TagLib major version below 2, on a valid
\* handle, complexProperty raises NotImplementedError for every key,
\* mergeComplexProperties raises it exactly when the updates Hash is not empty and
\* returns normally for an empty one, complexPropertyKeys returns an empty Array;
\* none of the three changes what the file holds.
C16_UnsupportedRaisesWhenAsked ==
    Unsupported =>
        /\ refOp.name = "complexProperty" => refOp.raised = "NotImplementedError"
        /\ refOp.name = "mergeComplexProperties" =>
               refOp.raised = (IF Len(refOp.arg.v) > 0 THEN "NotImplementedError" ELSE "none")
        /\ refOp.name = "complexPropertyKeys" =>
               refOp.raised = "none" /\ refOp.ret = RArr(<<>>)
        /\ lib = refOp.before

\* complexProperty("P") on a valid handle of TagLib 1 raised
C16_Witness ==
    /\ Unsupported
    /\ refOp.name = "complexProperty"
    /\ refOp.arg = RStr("UTF-8", <<80>>)
    /\ refOp.raised = "NotImplementedError"

\* mergeComplexProperties({}) on a valid handle of TagLib 1 returned
C16_WitnessEmptyUpdates ==
    /\ Unsupported
    /\ refOp.name = "mergeComplexProperties"
    /\ Len(refOp.arg.v) = 0
    /\ refOp.raised = "none"

---------------------------------------------------------------------------
(* Claims on the text a Ruby String carries, under SpecDyn *)

\* the characters of a Ruby String, read in its own encoding
CharactersOf(str) ==
    CASE str.enc \in {"UTF-8", "US-ASCII", "EUC-JP"} -> decodeUTF8(str.bytes)
      [] str.enc = "ISO-8859-1" -> str.bytes
      [] str.enc = "UTF-16LE" -> decodeUTF16(str.bytes, TRUE)
      [] str.enc = "UTF-16BE" -> decodeUTF16(str.bytes, FALSE)
      [] str.enc = "UTF-16" ->
             IF Len(str.bytes) >= 2 /\ str.bytes[1] = 255 /\ str.bytes[2] = 254
             THEN decodeUTF16(Tail(Tail(str.bytes)), TRUE)
             ELSE decodeUTF16(Tail(Tail(str.bytes)), FALSE)

\* C17: a Ruby String whose encoding is not binary keeps its characters when it
\* becomes a TagLib value: tagged UTF-16LE, UTF-16BE, UTF-16 or Latin-1 it is
\* transcoded, so the String Variant made of it, and each entry of a StringList
\* made of an Array of such Strings, holds the characters of the source and not
\* its bytes read as UTF-8.
C17_CharactersPreserved ==
    conv.phase = "variant" =>
        /\ (IsRubyString(conv.dyn) /\ ~isBinaryEncoding(conv.dyn)) =>
               conv.back = Variant("String", CharactersOf(conv.dyn))
        /\ (conv.dyn.k = "array" /\ Len(conv.dyn.v) > 0 /\ AllStrings(conv.dyn.v)
                /\ \A i \in 1..Len(conv.dyn.v) : ~isBinaryEncoding(conv.dyn.v[i])) =>
               conv.back = Variant("StringList",
                                   [i \in 1..Len(conv.dyn.v) |-> CharactersOf(conv.dyn.v[i])])

\* what holds of it: a String tagged UTF-8 or US-ASCII keeps its characters
UTF8CharactersPreserved ==
    (conv.phase = "variant" /\ IsRubyString(conv.dyn)
         /\ conv.dyn.enc \in {"UTF-8", "US-ASCII"}) =>
        conv.back = Variant("String", CharactersOf(conv.dyn))

\* the calls insert and removeBlock make on the IO when the remainder is read
\* each time
StepsReadingRemainder ==
    IF ioOp.name = "insert"
    THEN <<"seek", "seek", "read", "seek", "write", "write", "truncate">>
    ELSE <<"seek", "read", "seek", "write", "truncate">>

\* the calls they make as written: insert reads only when replace > 0
StepsAsWritten ==
    IF ioOp.name = "insert" /\ ioOp.n = 0
    THEN <<"seek", "seek", "write", "write", "truncate">>
    ELSE StepsReadingRemainder

Overlaid(R, at, s) == IF Len(s) = 0 THEN R ELSE Take(R, at) \o s \o Drop(R, at + Len(s))

Writes(steps) == Cardinality({i \in 1..Len(steps) : steps[i] = "write"})

\* a run that raised made the calls of steps up to the one that raised and no
\* other; the writes that returned before it are in the content, nothing else is
StoppedAt(steps, remainder) ==
    LET done == Take(steps, Len(ioOp.calls) - 1)
        first == IF ioOp.name = "insert" THEN ioOp.data ELSE remainder
        once == Overlaid(ioOp.R, ioOp.start, first)
        twice == Overlaid(once, ioOp.start + Len(first), remainder)
    IN /\ Len(ioOp.calls) \in 1..Len(steps)
       /\ ioOp.calls = Take(steps, Len(ioOp.calls))
       /\ io.content = CASE Writes(done) = 0 -> ioOp.R
                         [] Writes(done) = 1 -> once
                         [] OTHER -> twice

\* C18: when the IO raises at a step of insert or removeBlock (seek, read, write
\* or truncate) the error reaches the caller, no later step runs (no truncate
\* after a failed write), nothing is retried and the bytes written before the
\* failure stay in the IO; in both operations the remainder is read before the
\* first write, so a failure of the read leaves the content as it was.
C18_RaiseStopsSequence ==
    (ioOp.name \in {"insert", "removeBlock"} /\ ioOp.start <= Len(ioOp.R)
         /\ ~io.closed) =>
        /\ ioOp.raised =>
               StoppedAt(StepsReadingRemainder, Drop(ioOp.R, ioOp.start + ioOp.n))
        /\ \A i \in 1..Len(ioOp.calls) :
               ioOp.calls[i] = "write" => \E j \in 1..(i - 1) : ioOp.calls[j] = "read"

\* what holds of it: the run stops at the call that raised, without rollback, on
\* the calls as written
RaiseStopsRun ==
    (ioOp.name \in {"insert", "removeBlock"} /\ ioOp.start <= Len(ioOp.R)
         /\ ~io.closed /\ ioOp.raised) =>
        StoppedAt(StepsAsWritten,
                  IF ioOp.name = "insert" /\ ioOp.n = 0 THEN <<>>
                  ELSE Drop(ioOp.R, ioOp.start + ioOp.n))

\* the second write of an insert raised after the first had put its data in
RaiseStopsRun_Witness ==
    /\ ioOp.name = "insert" /\ ioOp.raised /\ ioOp.n > 0
    /\ ioOp.calls = <<"seek", "seek", "read", "seek", "write", "write">>
    /\ Len(ioOp.data) > 0
    /\ io.content # ioOp.R

---------------------------------------------------------------------------
(* Claims on the order of release, under Spec *)

LifecycleOps == {"new", "close", "delete"}

\* in the order a path released the members, the adapter comes after the handle
HandleFirst(released) ==
    \A i \in 1..Len(released) :
        released[i] = "stream" => \E j \in 1..(i - 1) : released[j] = "fileRef"

NoOp ==
    /\ refOp.released = <<>>
    /\ fileRef = refOp.handle
    /\ stream = refOp.streamBefore
    /\ lib = refOp.before
    /\ io = refOp.ioBefore

\* C19: over the life of a FileRef built on an IO (construction with a parse
\* that succeeds or fails, close, a second close, destruction) the adapter is
\* never released while the TagLib handle made over it is alive: a failed parse in
\* the constructor, close() and the destructor each release the handle before the
\* adapter, and a second close() does nothing.
C19_HandleReleasedFirst ==
    /\ refOp.name \in LifecycleOps => HandleFirst(refOp.released)
    /\ (refOp.name = "close" /\ refOp.handle # "valid") => NoOp

\* what holds of it: close() releases the handle and then the adapter, and a
\* second close() does nothing
CloseReleasesHandleFirst ==
    refOp.name = "close" =>
        IF refOp.handle = "valid"
        THEN /\ HandleFirst(refOp.released)
             /\ refOp.streamBefore.alive => refOp.released = <<"fileRef", "stream">>
             /\ ~stream.alive
        ELSE NoOp

\* a FileRef over an IO was closed and then closed again
CloseReleasesHandleFirst_Witness ==
    /\ refOp.name = "close"
    /\ refOp.handle = "null"
    /\ refOp.released = <<>>

===========================================================================
